---- MODULE Spec2Model ----
(***************************************************************************)
(* Models of the example programs of the repository.                       *)
(*                                                                         *)
(* Spec, SpecThreads: the `Cacher` memoizing wrapper of the closures       *)
(* example (functional_language_features/closures/src/main.rs).  A Cacher  *)
(* owns a closure `calculation: T` with T: Fn(u32) -> u32 and a single     *)
(* slot `value: Option<u32>`.  `value(arg)` returns the slot when it is    *)
(* Some and otherwise runs the closure on arg, stores and returns the      *)
(* result.  The closure is an input of the program: it is drawn from the   *)
(* functions over a small key set, and each execution of it either         *)
(* returns or panics (a panic unwinds through `value`).                    *)
(*                                                                         *)
(* SpecWorkout: generate_workout of the same file.                         *)
(* SpecGuess:   the Guess type of error_handling2.                         *)
(* SpecIter:    the iterator of tests::iterator_demonstration (iterators). *)
(* SpecFiles:   read_username_from_file and _2 of error_handling.          *)
(* SpecOpen:    match_on_different_errors and closure_error_match of       *)
(*              error_handling.                                            *)
(* SpecGame:    the loop of main of guessing_game.                         *)
(* SpecWord:    first_word of slice_type.                                  *)
(***************************************************************************)
EXTENDS Integers, Sequences, FiniteSets

\* Number of calls of Cacher::value made on the one cache.
MaxCalls == 4

\* The u32 arguments passed to value and the u32 results a closure may give.
Keys == {5, 7}
Vals == {5, 6, 7, 8}

\* The threads of control that call value in the interleaved reading of
\* Cacher::value.
Threads == {"t1", "t2"}

VARIABLES cacher, history, output, threads, guesses, guessCalls,
          v1, v1_iter, nexts, workout, files, usernames, dir, opened,
          game, word

vars == <<cacher, history, output, threads, guesses, guessCalls,
          v1, v1_iter, nexts, workout, files, usernames, dir, opened,
          game, word>>

\* The programs of the repository are separate crates: each specification
\* runs the programs named in own and leaves the state of the others at rest.
AtRest(own) ==
    /\ IF "cacher" \in own
       THEN TRUE
       ELSE cacher = << >> /\ history = << >> /\ output = << >>
    /\ IF "threads" \in own
       THEN TRUE
       ELSE threads = << >>
    /\ IF "guess" \in own
       THEN TRUE
       ELSE guesses = << >> /\ guessCalls = << >>
    /\ IF "iter" \in own
       THEN TRUE
       ELSE v1 = << >> /\ v1_iter = << >> /\ nexts = << >>
    /\ IF "workout" \in own
       THEN TRUE
       ELSE workout = << >>
    /\ IF "files" \in own
       THEN TRUE
       ELSE files = << >> /\ usernames = << >>
    /\ IF "open" \in own
       THEN TRUE
       ELSE dir = << >> /\ opened = << >>
    /\ IF "game" \in own
       THEN TRUE
       ELSE game = << >>
    /\ IF "word" \in own
       THEN TRUE
       ELSE word = << >>

Frame(own) ==
    /\ IF "cacher" \in own THEN TRUE ELSE UNCHANGED <<cacher, history, output>>
    /\ IF "threads" \in own THEN TRUE ELSE UNCHANGED threads
    /\ IF "guess" \in own THEN TRUE ELSE UNCHANGED <<guesses, guessCalls>>
    /\ IF "iter" \in own THEN TRUE ELSE UNCHANGED <<v1, v1_iter, nexts>>
    /\ IF "workout" \in own THEN TRUE ELSE UNCHANGED workout
    /\ IF "files" \in own THEN TRUE ELSE UNCHANGED <<files, usernames>>
    /\ IF "open" \in own THEN TRUE ELSE UNCHANGED <<dir, opened>>
    /\ IF "game" \in own THEN TRUE ELSE UNCHANGED game
    /\ IF "word" \in own THEN TRUE ELSE UNCHANGED word

----------------------------------------------------------------------------
\* Option<u32>
None == [some |-> FALSE]
Some(v) == [some |-> TRUE, v |-> v]

\* How one execution of the closure ends: it returns, or it panics.
Outcomes == {"ok", "panic"}

\* What a caller of value gets when the closure panicked: no value at all,
\* the unwinding passes through value.
Panicked == [some |-> FALSE, panic |-> TRUE]

\* T: Fn(u32) -> u32, restricted to the keys and results of the model.
Closures == [Keys -> Vals]

\* A variant of the constructor that runs the closure at once.
Cacher_new_Eager(calculation) ==
    [calculation |-> calculation, value |-> Some(calculation[5])]

\* Cacher::new
Cacher_new(calculation) == [calculation |-> calculation, value |-> None]

\* A variant of the test that never finds the slot filled.
IsCached_Never(self, arg) == FALSE

\* `match self.value { Some(v) => ..., None => ... }`: the test that decides
\* between returning the slot and running the closure.  It does not look at
\* arg.
IsCached(self, arg) == self.value.some

\* (self.calculation)(arg)
Calculate(self, arg) == self.calculation[arg]

\* Variants of the store step, each a slip the code does not make: the result
\* is never saved; arg is saved in place of the result; a slot is filled
\* before the closure has returned.
ValueStore_Skip(self, arg, outcome) == self

ValueStore_Arg(self, arg, outcome) ==
    IF IsCached(self, arg)
    THEN self
    ELSE IF outcome = "ok"
         THEN [self EXCEPT !.value = Some(arg)]
         ELSE self

ValueStore_Early(self, arg, outcome) ==
    IF IsCached(self, arg)
    THEN self
    ELSE [self EXCEPT !.value = Some(Calculate(self, arg))]

\* A variant of the store step that refreshes the slot on every call.
ValueStore_Overwrite(self, arg, outcome) ==
    IF outcome = "ok"
    THEN [self EXCEPT !.value = Some(Calculate(self, arg))]
    ELSE self

\* The Cacher after value(arg) whose closure execution (if any) ends with
\* outcome: `self.value = Some(v)` is reached only when the closure returned.
ValueStore(self, arg, outcome) ==
    IF IsCached(self, arg)
    THEN self
    ELSE IF outcome = "ok"
         THEN [self EXCEPT !.value = Some(Calculate(self, arg))]
         ELSE self

\* A variant of the return that looks the result up for arg on every call.
ValueReturn_Recompute(self, arg, outcome) ==
    IF outcome = "ok" THEN Some(Calculate(self, arg)) ELSE Panicked

\* What value(arg) hands to its caller.
ValueReturn(self, arg, outcome) ==
    IF IsCached(self, arg)
    THEN Some(self.value.v)
    ELSE IF outcome = "ok"
         THEN Some(Calculate(self, arg))
         ELSE Panicked

\* The executions of the closure value(arg) adds to the output: the closure
\* prints "calculating slowly..." each time it runs.
ValueRuns(self, arg, outcome) ==
    IF IsCached(self, arg)
    THEN << >>
    ELSE << [arg |-> arg, outcome |-> outcome] >>

----------------------------------------------------------------------------
Init ==
    /\ \E calculation \in Closures : cacher = Cacher_new(calculation)
    /\ history = << >>
    /\ output = << >>
    /\ AtRest({"cacher"})

\* One call cacher.value(arg); outcome is how the closure ends if it is run.
Value(arg, outcome) ==
    /\ Len(history) < MaxCalls
    /\ IsCached(cacher, arg) => outcome = "ok"
    /\ cacher' = ValueStore(cacher, arg, outcome)
    /\ output' = output \o ValueRuns(cacher, arg, outcome)
    /\ history' = Append(history,
                         [arg   |-> arg,
                          ret   |-> ValueReturn(cacher, arg, outcome),
                          count |-> Len(output \o ValueRuns(cacher, arg, outcome))])
    /\ Frame({"cacher"})

Next == \E arg \in Keys, outcome \in Outcomes : Value(arg, outcome)

Spec == Init /\ [][Next]_vars

----------------------------------------------------------------------------
\* Cacher::value statement by statement, executed by several threads of
\* control on one Cacher without a lock (the borrow checker rules this out
\* for safe code: `value` takes &mut self).  A thread is idle, or inside
\* value(arg) at the match on self.value, at the closure call, or at the
\* store; v is its local `v`.
ThreadIdle == [pc |-> "idle", arg |-> 0, v |-> 0]

\* The calls of value that have been started.
Started == Len(history) + Cardinality({t \in Threads : threads[t].pc # "idle"})

\* A variant of the match in which a thread that finds a result keeps
\* waiting at the match.
AfterMatch_Spin(self, arg) == IF IsCached(self, arg) THEN "match" ELSE "call"

\* Where the thread goes from `match self.value`: out of value with the
\* stored result, or on to the closure call.
AfterMatch(self, arg) == IF IsCached(self, arg) THEN "idle" ELSE "call"

\* A variant of the closure call that looks at the slot again and skips the
\* closure when another thread has filled it in the meantime.
CallRuns_Recheck(self, arg, outcome) ==
    IF self.value.some THEN << >> ELSE << [arg |-> arg, outcome |-> outcome] >>

\* `let v = (self.calculation)(arg);`: the closure is executed, whatever the
\* slot holds by now.
CallRuns(self, arg, outcome) == << [arg |-> arg, outcome |-> outcome] >>

InitThreads ==
    /\ \E calculation \in Closures : cacher = Cacher_new(calculation)
    /\ history = << >>
    /\ output = << >>
    /\ threads = [t \in Threads |-> ThreadIdle]
    /\ AtRest({"cacher", "threads"})

\* Thread t enters value(arg).
Enter(t, arg) ==
    /\ threads[t].pc = "idle"
    /\ Started < MaxCalls
    /\ threads' = [threads EXCEPT ![t] = [pc |-> "match", arg |-> arg, v |-> 0]]
    /\ UNCHANGED <<cacher, history, output>>
    /\ Frame({"cacher", "threads"})

\* `match self.value`: Some(v) => v returns at once, None goes on.
Match(t) ==
    /\ threads[t].pc = "match"
    /\ LET next == AfterMatch(cacher, threads[t].arg) IN
         /\ threads' = [threads EXCEPT ![t] =
                           IF next = "idle" THEN ThreadIdle ELSE [@ EXCEPT !.pc = next]]
         /\ history' = IF next = "idle"
                       THEN Append(history, [arg   |-> threads[t].arg,
                                             ret   |-> Some(cacher.value.v),
                                             count |-> Len(output)])
                       ELSE history
    /\ UNCHANGED <<cacher, output>>
    /\ Frame({"cacher", "threads"})

\* `let v = (self.calculation)(arg);`: the closure returns, or it panics and
\* the panic unwinds out of value.
Call(t, outcome) ==
    /\ threads[t].pc = "call"
    /\ LET runs == CallRuns(cacher, threads[t].arg, outcome) IN
         /\ output' = output \o runs
         /\ IF outcome = "ok"
            THEN /\ threads' = [threads EXCEPT ![t] =
                                  [@ EXCEPT !.pc = "store",
                                            !.v = Calculate(cacher, threads[t].arg)]]
                 /\ history' = history
            ELSE /\ threads' = [threads EXCEPT ![t] = ThreadIdle]
                 /\ history' = Append(history, [arg   |-> threads[t].arg,
                                                ret   |-> Panicked,
                                                count |-> Len(output \o runs)])
    /\ UNCHANGED cacher
    /\ Frame({"cacher", "threads"})

\* `self.value = Some(v); v`
Store(t) ==
    /\ threads[t].pc = "store"
    /\ cacher' = [cacher EXCEPT !.value = Some(threads[t].v)]
    /\ history' = Append(history, [arg   |-> threads[t].arg,
                                   ret   |-> Some(threads[t].v),
                                   count |-> Len(output)])
    /\ threads' = [threads EXCEPT ![t] = ThreadIdle]
    /\ UNCHANGED output
    /\ Frame({"cacher", "threads"})

\* A step of thread t inside value.
Step(t) == Match(t) \/ (\E outcome \in Outcomes : Call(t, outcome)) \/ Store(t)

NextThreads ==
    \/ \E t \in Threads, arg \in Keys : Enter(t, arg)
    \/ \E t \in Threads : Match(t)
    \/ \E t \in Threads, outcome \in Outcomes : Call(t, outcome)
    \/ \E t \in Threads : Store(t)

SpecThreads == InitThreads /\ [][NextThreads]_vars

\* A thread inside value keeps running: the closure runs to completion and
\* nothing in value waits for anything.
SpecThreadsFair == SpecThreads /\ \A t \in Threads : WF_vars(Step(t))

----------------------------------------------------------------------------
\* generate_workout(intensity, random_number): it wraps the expensive closure
\* `|num| { println!("calculating slowly..."); sleep; num }` in a Cacher,
\* expensive_result (the variable cacher), and prints the plan.  workout
\* holds the arguments, the place in the function and the lines printed.

\* The u32 arguments of generate_workout.
Intensities == 15..34
RandomNumbers == 1..5

\* The closure of generate_workout: it returns the number it is given.
ExpensiveClosure == [num \in Intensities |-> num]

\* `let mut expensive_result = Cacher::new(|num| {...});`
InitWorkout ==
    /\ \E intensity \in Intensities, random_number \in RandomNumbers :
          workout = [pc |-> "if", intensity |-> intensity,
                     random_number |-> random_number, printed |-> << >>]
    /\ cacher = Cacher_new(ExpensiveClosure)
    /\ history = << >>
    /\ output = << >>
    /\ AtRest({"cacher", "workout"})

\* `expensive_result.value(intensity)` inside a println!; the closure of
\* generate_workout always returns.  The line is printed with the result.
WorkoutValue(line, pc) ==
    /\ cacher' = ValueStore(cacher, workout.intensity, "ok")
    /\ output' = output \o ValueRuns(cacher, workout.intensity, "ok")
    /\ history' = Append(history,
                         [arg   |-> workout.intensity,
                          ret   |-> ValueReturn(cacher, workout.intensity, "ok"),
                          count |-> Len(output \o ValueRuns(cacher, workout.intensity, "ok"))])
    /\ workout' = [workout EXCEPT
                      !.pc = pc,
                      !.printed = Append(@, [line |-> line,
                                             n |-> ValueReturn(cacher, workout.intensity, "ok").v])]

\* `if intensity < 25 { println!("Today, do {} pushups!", ...value(intensity));`
WorkoutPushups ==
    /\ workout.pc = "if"
    /\ workout.intensity < 25
    /\ WorkoutValue("Today, do {} pushups!", "situps")
    /\ Frame({"cacher", "workout"})

\* `println!("Next, do {} situps!", ...value(intensity));`
WorkoutSitups ==
    /\ workout.pc = "situps"
    /\ WorkoutValue("Next, do {} situps!", "done")
    /\ Frame({"cacher", "workout"})

\* `else { if random_number == 3 { println!("Take a break today! ...") }`
WorkoutBreak ==
    /\ workout.pc = "if"
    /\ ~(workout.intensity < 25)
    /\ workout.random_number = 3
    /\ workout' = [workout EXCEPT
                      !.pc = "done",
                      !.printed = Append(@, [line |-> "Take a break today! Remember to stay hydrated!",
                                             n |-> 0])]
    /\ UNCHANGED <<cacher, history, output>>
    /\ Frame({"cacher", "workout"})

\* `else { println!("Today, run for {} minutes!", ...value(intensity)) }`
WorkoutRun ==
    /\ workout.pc = "if"
    /\ ~(workout.intensity < 25)
    /\ ~(workout.random_number = 3)
    /\ WorkoutValue("Today, run for {} minutes!", "done")
    /\ Frame({"cacher", "workout"})

NextWorkout == WorkoutPushups \/ WorkoutSitups \/ WorkoutBreak \/ WorkoutRun

SpecWorkout == InitWorkout /\ [][NextWorkout]_vars

----------------------------------------------------------------------------
\* read_username_from_file and read_username_from_file_2 of error_handling.
\* files is the state of the file system: what the working directory holds
\* under each name.  usernames records what each function returned.

\* The file names the two functions open.
FileNames == {"hello.text", "hello.txt"}

\* What a name may hold: nothing, a file that may not be opened, a file
\* whose bytes are not UTF-8, or a text file with its contents.
FileStates ==
    {[kind |-> "absent"], [kind |-> "denied"], [kind |-> "binary"]}
    \cup {[kind |-> "text", contents |-> c] : c \in {"", "alice", "bob"}}

\* Result<T, io::Error>
Ok(x) == [ok |-> TRUE, val |-> x]
Err(e) == [ok |-> FALSE, err |-> e]

\* File::open(name): a handle on the file, or the io::Error.
File_open(fs, name) ==
    CASE fs[name].kind = "absent" -> Err("NotFound")
      [] fs[name].kind = "denied" -> Err("PermissionDenied")
      [] OTHER -> Ok(name)

\* f.read_to_string(&mut s): the contents appended to s, or the io::Error.
Read_to_string(fs, f) ==
    IF fs[f].kind = "text" THEN Ok(fs[f].contents) ELSE Err("InvalidData")

\* The conversion `?` applies to the error: From<io::Error> for io::Error.
From(e) == e

\* fn read_username_from_file: the version written with `match`.
read_username_from_file(fs) ==
    LET f == File_open(fs, "hello.text") IN
    IF ~f.ok
    THEN Err(f.err)
    ELSE LET r == Read_to_string(fs, f.val) IN
         IF r.ok THEN Ok(r.val) ELSE Err(r.err)

\* fn read_username_from_file_2: the version written with `?`.
read_username_from_file_2(fs) ==
    LET f == File_open(fs, "hello.txt") IN
    IF ~f.ok
    THEN Err(From(f.err))
    ELSE LET r == Read_to_string(fs, f.val) IN
         IF ~r.ok THEN Err(From(r.err)) ELSE Ok(r.val)

NotCalled == [called |-> FALSE]
Returned(r) == [called |-> TRUE, result |-> r]

InitFiles ==
    /\ files \in [FileNames -> FileStates]
    /\ usernames = [match |-> NotCalled, question |-> NotCalled]
    /\ AtRest({"files"})

\* A call of read_username_from_file().
ReadUsername ==
    /\ ~usernames.match.called
    /\ usernames' = [usernames EXCEPT !.match = Returned(read_username_from_file(files))]
    /\ UNCHANGED files
    /\ Frame({"files"})

\* A call of read_username_from_file_2().
ReadUsername2 ==
    /\ ~usernames.question.called
    /\ usernames' = [usernames EXCEPT !.question = Returned(read_username_from_file_2(files))]
    /\ UNCHANGED files
    /\ Frame({"files"})

NextFiles == ReadUsername \/ ReadUsername2

SpecFiles == InitFiles /\ [][NextFiles]_vars

----------------------------------------------------------------------------
\* match_on_different_errors and closure_error_match of error_handling: open
\* hello.txt, create it when it is not found, panic otherwise.  dir is the
\* working directory the functions start in: what each name holds, and how
\* File::create would end there.  opened records how each function ended.

\* How File::create("hello.txt") ends: the file is made, or an io::Error of
\* this kind.
CreateOutcomes == {"ok", "PermissionDenied", "Other"}

\* The io::Error the operating system reports for a kind: the error value
\* carries the OS code next to its kind.
IoError(kind) ==
    [kind |-> kind,
     code |-> CASE kind = "NotFound" -> 2
                [] kind = "PermissionDenied" -> 13
                [] OTHER -> 28]

\* error.kind()
Error_kind(error) == error.kind

\* `{:?}` of an io::ErrorKind: the name of the variant.
Debug_ErrorKind(kind) == <<kind>>

\* `{:?}` of an io::Error from the operating system: Os { code, kind, .. }.
Debug_IoError(error) == <<"Os", error.code, error.kind>>

\* panic!(fmt, arg): the message is fmt with arg in place of {:?}.
Panic(fmt, arg) == [end |-> "panic", message |-> <<fmt>> \o arg]

\* The function went on to println!("{:?}", f) with this handle.
Handle(name) == [end |-> "file", name |-> name]

\* File::open(name) with the io::Error as a value.
File_open_io(d, name) ==
    LET r == File_open(d.fs, name) IN
    IF r.ok THEN r ELSE Err(IoError(r.err))

\* File::create(name)
File_create(d, name) ==
    IF d.create = "ok" THEN Ok(name) ELSE Err(IoError(d.create))

\* fn match_on_different_errors
match_on_different_errors(d) ==
    LET f == File_open_io(d, "hello.txt") IN
    IF f.ok
    THEN Handle(f.val)
    ELSE IF Error_kind(f.err) = "NotFound"
         THEN LET fc == File_create(d, "hello.txt") IN
              IF fc.ok
              THEN Handle(fc.val)
              ELSE Panic("Problem creating the file: {:?}", Debug_IoError(fc.err))
         ELSE Panic("Problem opening the file: {:?}", Debug_ErrorKind(Error_kind(f.err)))

\* fn closure_error_match
closure_error_match(d) ==
    LET f == File_open_io(d, "hello.txt") IN
    IF f.ok
    THEN Handle(f.val)
    ELSE IF Error_kind(f.err) = "NotFound"
         THEN LET fc == File_create(d, "hello.txt") IN
              IF fc.ok
              THEN Handle(fc.val)
              ELSE Panic("Problem creating the file: {:?}", Debug_IoError(fc.err))
         ELSE Panic("Problem opening the file: {:?}", Debug_IoError(f.err))

InitOpen ==
    /\ \E fs \in [FileNames -> FileStates], create \in CreateOutcomes :
          dir = [fs |-> fs, create |-> create]
    /\ opened = [match |-> NotCalled, closure |-> NotCalled]
    /\ AtRest({"open"})

\* match_on_different_errors() run in the directory.
OpenMatch ==
    /\ ~opened.match.called
    /\ opened' = [opened EXCEPT !.match = Returned(match_on_different_errors(dir))]
    /\ UNCHANGED dir
    /\ Frame({"open"})

\* closure_error_match() run in the same directory.
OpenClosure ==
    /\ ~opened.closure.called
    /\ opened' = [opened EXCEPT !.closure = Returned(closure_error_match(dir))]
    /\ UNCHANGED dir
    /\ Frame({"open"})

NextOpen == OpenMatch \/ OpenClosure

SpecOpen == InitOpen /\ [][NextOpen]_vars

----------------------------------------------------------------------------
\* The guessing game (guessing_game/src/main.rs): a secret number and a loop
\* that reads a line, parses it and compares.  game holds the secret, the
\* place in main and, for every pass of the loop, the line read, what it
\* parsed to and the lines printed.  A line is the sequence of its
\* characters.

\* Number of passes of the loop.
MaxRounds == 3

\* `rand::thread_rng().gen_range(1, 101)`: from 1, below 101.
SecretNumbers == 1..100

\* The lines typed by the user: "50", " 7 ", "+100", "-5", "abc" and an
\* empty line, each ended by the newline read_line keeps; and the line read
\* at the end of the input, which has no character at all.
Lines ==
    { << >>,
      <<"5", "0", "\n">>,
      <<" ", "7", " ", "\n">>,
      <<"+", "1", "0", "0", "\n">>,
      <<"-", "5", "\n">>,
      <<"a", "b", "c", "\n">>,
      <<"\n">> }

WhiteSpace == {" ", "\n", "\t", "\r"}

DigitChars == <<"0", "1", "2", "3", "4", "5", "6", "7", "8", "9">>

IsDigit(c) == \E d \in DOMAIN DigitChars : DigitChars[d] = c

DigitValue(c) == (CHOOSE d \in DOMAIN DigitChars : DigitChars[d] = c) - 1

RECURSIVE TrimStart(_)
TrimStart(str) ==
    IF str # << >> /\ Head(str) \in WhiteSpace THEN TrimStart(Tail(str)) ELSE str

RECURSIVE TrimEnd(_)
TrimEnd(str) ==
    IF str # << >> /\ str[Len(str)] \in WhiteSpace
    THEN TrimEnd(SubSeq(str, 1, Len(str) - 1))
    ELSE str

\* str.trim(): the whitespace at the beginning and the end is removed.
Trim(str) == TrimEnd(TrimStart(str))

\* The value of a run of digits read after acc, or an error at the first
\* character that is no digit.  (The lines of the model stay far below the
\* u32 range, so the overflow error of parse does not arise.)
RECURSIVE ParseDigits(_, _)
ParseDigits(str, acc) ==
    IF str = << >>
    THEN Ok(acc)
    ELSE IF IsDigit(Head(str))
         THEN ParseDigits(Tail(str), acc * 10 + DigitValue(Head(str)))
         ELSE Err("InvalidDigit")

\* str.parse::<u32>(): an optional `+`, then one digit or more.
ParseU32(str) ==
    IF str = << >>
    THEN Err("Empty")
    ELSE LET digits == IF Head(str) = "+" THEN Tail(str) ELSE str IN
         IF digits = << >> THEN Err("InvalidDigit") ELSE ParseDigits(digits, 0)

\* A variant of the match on the parse result that crashes on an error, as
\* `.expect("Please type a number!")` would.
AfterParse_Expect(parsed) == IF parsed.ok THEN "compare" ELSE "panic"

\* `match guess.trim().parse() { Ok(num) => num, Err(_) => continue }`
AfterParse(parsed) == IF parsed.ok THEN "compare" ELSE "loop"

\* `match guess.cmp(&secret_number)`: the line printed.
Verdict(guess, secret_number) ==
    IF guess < secret_number THEN "Too small!"
    ELSE IF guess > secret_number THEN "Too big!"
    ELSE "You win!"

\* A variant of the Equal arm without the break.
AfterVerdict_NoBreak(guess, secret_number) == "loop"

\* Where main goes after the comparison: `break` on Equal, else round again.
AfterVerdict(guess, secret_number) ==
    IF guess = secret_number THEN "done" ELSE "loop"

\* `let secret_number = ...;` and the entry of the loop.
InitGame ==
    /\ \E secret_number \in SecretNumbers :
          game = [pc |-> "loop", secret_number |-> secret_number, rounds |-> << >>]
    /\ AtRest({"game"})

\* One pass of the loop in which read_line gives line.
Round(line) ==
    /\ game.pc = "loop"
    /\ Len(game.rounds) < MaxRounds
    /\ LET parsed == ParseU32(Trim(line))
           prompt == <<"Please input your guess.">>
       IN
       IF AfterParse(parsed) = "compare"
       THEN game' = [game EXCEPT
                       !.pc = AfterVerdict(parsed.val, game.secret_number),
                       !.rounds = Append(@,
                           [line |-> line, guess |-> parsed,
                            printed |-> prompt \o <<"You guessed: {}",
                                                   Verdict(parsed.val, game.secret_number)>>])]
       ELSE game' = [game EXCEPT
                       !.pc = AfterParse(parsed),
                       !.rounds = Append(@,
                           [line |-> line, guess |-> parsed, printed |-> prompt])]
    /\ Frame({"game"})

\* One pass of the loop in which read_line fails: `.expect("Failed to read
\* line")` panics.
ReadLineFails ==
    /\ game.pc = "loop"
    /\ Len(game.rounds) < MaxRounds
    /\ game' = [game EXCEPT !.pc = "panic"]
    /\ Frame({"game"})

NextGame == (\E line \in Lines : Round(line)) \/ ReadLineFails

SpecGame == InitGame /\ [][NextGame]_vars

----------------------------------------------------------------------------
\* first_word of slice_type: the index of the end of the first word of a
\* String.  A String is the sequence of its characters; its bytes are the
\* UTF-8 encodings of the characters, one after the other.  word holds the
\* argument and what first_word returned.

\* Longest String, in characters.
MaxWordChars == 4

\* `b' '`
Space == 32

\* The characters of the Strings: a space, a letter, and a letter encoded in
\* two bytes.
Chars == {" ", "a", "e-acute"}

\* The UTF-8 bytes of a character.
Utf8(c) ==
    CASE c = " " -> <<Space>>
      [] c = "a" -> <<97>>
      [] c = "e-acute" -> <<195, 169>>

Strings == UNION {[1..n -> Chars] : n \in 0..MaxWordChars}

\* s.as_bytes()
RECURSIVE As_bytes(_)
As_bytes(str) == IF str = << >> THEN << >> ELSE Utf8(Head(str)) \o As_bytes(Tail(str))

\* s.len(): the length in bytes.
String_len(str) == Len(As_bytes(str))

\* `for (i, &item) in bytes.iter().enumerate()` from index i on: the first i
\* with item == b' ', or none when the bytes run out.
RECURSIVE ForEnumerate(_, _)
ForEnumerate(bytes, i) ==
    IF i >= Len(bytes)
    THEN None
    ELSE IF bytes[i + 1] = Space THEN Some(i) ELSE ForEnumerate(bytes, i + 1)

\* A variant of first_word that counts characters instead of bytes.
first_word_Chars(str) ==
    IF \E k \in DOMAIN str : str[k] = " "
    THEN (CHOOSE k \in DOMAIN str : str[k] = " " /\ \A l \in 1..(k - 1) : str[l] # " ") - 1
    ELSE Len(str)

\* fn first_word(s: &String) -> usize
first_word(str) ==
    LET found == ForEnumerate(As_bytes(str), 0) IN
    IF found.some THEN found.v ELSE String_len(str)

InitWord ==
    /\ \E str \in Strings : word = [s |-> str, ret |-> None]
    /\ AtRest({"word"})

\* A call first_word(&s) on a String s.
FirstWord ==
    /\ ~word.ret.some
    /\ word' = [word EXCEPT !.ret = Some(first_word(word.s))]
    /\ Frame({"word"})

NextWord == FirstWord

SpecWord == InitWord /\ [][NextWord]_vars

----------------------------------------------------------------------------
\* The Guess type of error_handling2: a struct with a private i32 field that
\* only Guess::new creates.  guesses holds the instances that exist,
\* guessCalls the calls made on the type and how each ended.

\* Number of calls made on the Guess type.
MaxGuessCalls == 3

\* The i32 arguments given to Guess::new.
GuessInputs == {-2147483647 - 1, -1, 0, 1, 2, 50, 99, 100, 101, 2147483647}

\* A variant of the range test that rejects 100.
Guess_new_Panics_Exclusive(value) == value < 1 \/ value >= 100

\* `if value < 1 || value > 100 { panic!(...) }`
Guess_new_Panics(value) == value < 1 \/ value > 100

\* `Guess { value }`
Guess_new(value) == [value |-> value]

\* Guess::value
Guess_value(self) == self.value

InitGuess ==
    /\ guesses = << >>
    /\ guessCalls = << >>
    /\ AtRest({"guess"})

\* One call Guess::new(value): it panics, or a new instance exists.
GuessNew(value) ==
    /\ Len(guessCalls) < MaxGuessCalls
    /\ IF Guess_new_Panics(value)
       THEN /\ guesses' = guesses
            /\ guessCalls' = Append(guessCalls,
                    [op |-> "new", arg |-> value, ret |-> "panic", id |-> 0])
       ELSE /\ guesses' = Append(guesses, Guess_new(value))
            /\ guessCalls' = Append(guessCalls,
                    [op |-> "new", arg |-> value, ret |-> "ok", id |-> Len(guesses) + 1])
    /\ Frame({"guess"})

\* One call of value() on the id-th instance.
GuessValue(id) ==
    /\ Len(guessCalls) < MaxGuessCalls
    /\ id \in DOMAIN guesses
    /\ guessCalls' = Append(guessCalls,
            [op |-> "value", arg |-> id, ret |-> Guess_value(guesses[id]), id |-> id])
    /\ UNCHANGED guesses
    /\ Frame({"guess"})

NextGuess ==
    \/ \E value \in GuessInputs : GuessNew(value)
    \/ \E id \in 1..MaxGuessCalls : GuessValue(id)

SpecGuess == InitGuess /\ [][NextGuess]_vars

----------------------------------------------------------------------------
\* The iterator of the iterators example: `v1.iter()` over a vector and the
\* calls of next() on it, as tests::iterator_demonstration makes them.  The
\* iterator is the standard library's; it is modelled as the test and the
\* comment on the Iterator trait describe it: a position in the vector that
\* each next() moves on by one item.

\* Longest vector iterated over, and the calls of next() made after the end.
MaxVecLen == 3
MaxExtraNexts == 2

\* The i32 elements of the vectors.
Elems == {1, 2, 3}

\* The vectors of at most MaxVecLen elements.
Vecs == UNION {[1..n -> Elems] : n \in 0..MaxVecLen}

\* `&v1[i]`, an immutable reference to the element at index i (from 0).
Ref(vec, i) == [idx |-> i, v |-> vec[i + 1]]

\* `v1.iter()`
Vec_iter(vec) == [vec |-> vec, pos |-> 0]

\* What next() returns: a reference to the item at the position, or None
\* when iteration is over.
Iter_next_ret(it) ==
    IF it.pos < Len(it.vec) THEN Some(Ref(it.vec, it.pos)) ELSE None

\* A variant of next() that does not move on.
Iter_next_Stuck(it) == it

\* The iterator after next(): the item at the position is used up.
Iter_next(it) ==
    IF it.pos < Len(it.vec) THEN [it EXCEPT !.pos = @ + 1] ELSE it

\* `let v1 = vec![...]; let mut v1_iter = v1.iter();`
InitIter ==
    /\ v1 \in Vecs
    /\ v1_iter = Vec_iter(v1)
    /\ nexts = << >>
    /\ AtRest({"iter"})

\* One call `v1_iter.next()`.
IterNext ==
    /\ Len(nexts) < Len(v1) + MaxExtraNexts
    /\ nexts' = Append(nexts, Iter_next_ret(v1_iter))
    /\ v1_iter' = Iter_next(v1_iter)
    /\ UNCHANGED v1
    /\ Frame({"iter"})

NextIter == IterNext

SpecIter == InitIter /\ [][NextIter]_vars

----------------------------------------------------------------------------
\* Views of the recorded calls and closure executions.

\* The closure executions with input k, in order.
Attempts(k) == SelectSeq(output, LAMBDA e : e.arg = k)

\* How many times the closure has been executed with input k.
Invocations(k) == Len(Attempts(k))

\* The positions in history of the calls value(k).
CallsOf(k) == {i \in DOMAIN history : history[i].arg = k}

\* No execution of the closure has panicked so far.
NoPanic == \A j \in DOMAIN output : output[j].outcome = "ok"

\* The closure has returned a result for input k.
ComputedFor(k) == \E j \in DOMAIN output : output[j].arg = k /\ output[j].outcome = "ok"

\* The number of closure executions before the i-th call of value.
CountBefore(i) == IF i = 1 THEN 0 ELSE history[i - 1].count

\* The i-th call of value ran the closure.
Invoked(i) == history[i].count = CountBefore(i) + 1

\* The step is a call value(k).
IsValueCall(k) ==
    /\ Len(history') = Len(history) + 1
    /\ history'[Len(history')].arg = k

----------------------------------------------------------------------------
\* C1: every value returned by value(k), after any earlier calls with any
\* keys, equals the result the closure itself gives for k.
C1_Correctness ==
    \A i \in DOMAIN history :
        history[i].ret.some => history[i].ret.v = cacher.calculation[history[i].arg]

\* C2: a call value(k1) leaves unchanged what value(k2) returns for every
\* other key k2: value(k2) returns the same result whether or not value(k1)
\* was called before it.
C2_Independence ==
    [][\A k1 \in Keys, k2 \in Keys :
          (k1 # k2 /\ IsValueCall(k1)) =>
              ValueReturn(cacher', k2, "ok") = ValueReturn(cacher, k2, "ok")]_vars

\* C3: with the closure n -> n + 1 on a fresh cache, the calls value(5),
\* value(5), value(7), value(5) return 6, 6, 8, 6 and the closure has been
\* executed 1, 1, 2, 2 times after the respective calls.
ScenarioArgs == <<5, 5, 7, 5>>
ScenarioRets == <<6, 6, 8, 6>>
ScenarioCounts == <<1, 1, 2, 2>>

C3_Scenario ==
    ( /\ cacher.calculation = [n \in Keys |-> n + 1]
      /\ NoPanic
      /\ Len(history) <= Len(ScenarioArgs)
      /\ \A i \in DOMAIN history : history[i].arg = ScenarioArgs[i] )
    => \A i \in DOMAIN history :
          /\ history[i].ret = Some(ScenarioRets[i])
          /\ history[i].count = ScenarioCounts[i]

\* C4: once value(k) has been called at least once, whatever other keys were
\* requested in between, the closure has been executed with input k exactly
\* once (the closure never panicking).
C4_ExactlyOncePerKey ==
    \A k \in Keys : (NoPanic /\ CallsOf(k) # {}) => Invocations(k) = 1

\* C5: as long as the closure has never panicked, it has been executed with
\* input k at most once, for every k.
C5_AtMostOncePerKey ==
    NoPanic => \A k \in Keys : Invocations(k) <= 1

\* C5 witness: value has been called twice with one key and once with another,
\* the closure never panicked, and it has run once.
C5_Witness ==
    /\ NoPanic
    /\ \E k1 \in Keys, k2 \in Keys :
          /\ k1 # k2
          /\ Cardinality(CallsOf(k1)) >= 2
          /\ CallsOf(k2) # {}
          /\ Invocations(k1) = 1

\* C6: a call value(key) made while the closure has not yet returned a result
\* for that key (results for other keys may exist) executes the closure
\* exactly once with key, and the result is stored and returned.
C6_MissPath ==
    [][\A k \in Keys :
          (IsValueCall(k) /\ ~ComputedFor(k)) =>
              /\ Len(output') = Len(output) + 1
              /\ output'[Len(output')].arg = k
              /\ output'[Len(output')].outcome = "ok" =>
                    /\ history'[Len(history')].ret = Some(cacher.calculation[k])
                    /\ cacher'.value = Some(cacher.calculation[k])]_vars

\* C7: when value(k) is called twice in a row and the first call returns a
\* value, the second call returns the same value and does not execute the
\* closure: the number of executions (of "calculating slowly..." lines) is
\* the same after both calls.
C7_HitPath ==
    \A i \in DOMAIN history :
        (i > 1 /\ history[i].arg = history[i - 1].arg /\ history[i - 1].ret.some) =>
            /\ history[i].ret = history[i - 1].ret
            /\ history[i].count = history[i - 1].count

\* C7 witness: two calls in a row with the same key, the first of which ran
\* the closure and returned.
C7_Witness ==
    \E i \in DOMAIN history :
        /\ i > 1
        /\ history[i].arg = history[i - 1].arg
        /\ history[i - 1].ret.some
        /\ Invoked(i - 1)

\* C8: all calls of value with the same key that return a value return the
\* same value.
C8_StablePerKey ==
    \A i \in DOMAIN history, j \in DOMAIN history :
        (history[i].arg = history[j].arg /\ history[i].ret.some /\ history[j].ret.some)
            => history[i].ret.v = history[j].ret.v

\* C8 witness: a key was requested, then another key, then the first key
\* again, and all three calls returned.
C8_Witness ==
    \E i \in DOMAIN history, j \in DOMAIN history, l \in DOMAIN history :
        /\ i < j /\ j < l
        /\ history[i].arg = history[l].arg
        /\ history[j].arg # history[i].arg
        /\ history[i].ret.some /\ history[j].ret.some /\ history[l].ret.some

\* C9: when the closure panics during value(k), the caller of value gets the
\* panic and no value, and the cache is exactly what it was before the call,
\* with no stored result.
C9_FailureStoresNothing ==
    [][\A k \in Keys :
          ( /\ IsValueCall(k)
            /\ Len(output') = Len(output) + 1
            /\ output'[Len(output')].outcome = "panic" ) =>
              /\ history'[Len(history')].ret = Panicked
              /\ cacher' = cacher
              /\ cacher'.value = None]_vars

\* C9 witness: the last call of value ran the closure, which panicked.
C9_Witness ==
    /\ history # << >>
    /\ output # << >>
    /\ Invoked(Len(history))
    /\ output[Len(output)].outcome = "panic"
    /\ history[Len(history)].ret = Panicked

\* The position in history of the n-th call value(k).
NthCallOf(k, n) ==
    CHOOSE i \in CallsOf(k) : Cardinality({j \in CallsOf(k) : j <= i}) = n

\* The closure panicked on its first execution with input k and returned on
\* its second.
FailedThenSucceeded(k) ==
    /\ Invocations(k) >= 2
    /\ Attempts(k)[1].outcome = "panic"
    /\ Attempts(k)[2].outcome = "ok"

\* C10: if the closure panics on its first execution for k and returns on its
\* second, then the second call value(k) executed the closure and returned
\* that second result, every later value(k) returns the same result, and the
\* closure has been executed for k exactly twice.
C10_FailureDoesNotPoison ==
    \A k \in Keys :
        FailedThenSucceeded(k) =>
            /\ Invocations(k) = 2
            /\ Cardinality(CallsOf(k)) >= 2
            /\ history[NthCallOf(k, 1)].ret = Panicked
            /\ Invoked(NthCallOf(k, 2))
            /\ history[NthCallOf(k, 2)].ret = Some(cacher.calculation[k])
            /\ \A i \in CallsOf(k) :
                  i > NthCallOf(k, 2) => history[i].ret = history[NthCallOf(k, 2)].ret

\* C10 witness: the closure panicked then returned for k, and value(k) has
\* been called again afterwards.
C10_Witness ==
    \E k \in Keys :
        /\ FailedThenSucceeded(k)
        /\ Cardinality(CallsOf(k)) >= 3


\* An execution of the closure that returned.
Completed == {j \in DOMAIN output : output[j].outcome = "ok"}

\* C11: once the cache holds a stored result, no value call removes it or
\* replaces it with another value; the slot only ever goes from None to
\* Some, and only in a call whose closure execution returned, to that
\* execution's result.
C11_NoEviction ==
    [][/\ cacher.value.some => cacher'.value = cacher.value
       /\ (~cacher.value.some /\ cacher'.value.some) =>
             /\ Len(output') = Len(output) + 1
             /\ output'[Len(output')].outcome = "ok"
             /\ cacher'.value = Some(cacher.calculation[output'[Len(output')].arg])]_vars

\* C11 witness: a result was stored and value has since been called with the
\* other key, for which the closure gives another result.
C11_Witness ==
    \E i \in DOMAIN history, j \in DOMAIN history :
        /\ i < j
        /\ Invoked(i) /\ history[i].ret.some
        /\ history[j].arg # history[i].arg
        /\ cacher.calculation[history[j].arg] # cacher.calculation[history[i].arg]
        /\ cacher.value = history[i].ret

\* C12: until the first call of value, the cache built by Cacher::new holds
\* no result and the closure has not been executed.
C12_Construction ==
    history = << >> => (cacher.value = None /\ Len(output) = 0)

\* C12 witness: the cache right after Cacher::new, before any value call.
C12_Witness ==
    /\ history = << >>
    /\ cacher = Cacher_new(cacher.calculation)
    /\ output = << >>

\* C13: after the first value(a) that returns, every later value(b), for b
\* equal to a or not, returns the closure's result for a.
C13_SingleEntry ==
    \A i \in DOMAIN history, j \in DOMAIN history :
        (i < j /\ Invoked(i) /\ history[i].ret.some) =>
            history[j].ret = Some(cacher.calculation[history[i].arg])

\* C13 witness: after value(a) returned, value(b) was called with b # a, and
\* the closure gives different results for a and b.
C13_Witness ==
    \E i \in DOMAIN history, j \in DOMAIN history :
        /\ i < j
        /\ Invoked(i) /\ history[i].ret.some
        /\ history[j].arg # history[i].arg
        /\ cacher.calculation[history[j].arg] # cacher.calculation[history[i].arg]
        /\ history[j].ret.some

\* C14 as stated: over any sequence of value calls the closure is executed
\* at most once overall.
C14_RunAtMostOnce == Len(output) <= 1

\* C14 amended: at most one execution of the closure ever returns, and as
\* long as no execution has panicked the closure has been executed at most
\* once overall (an execution that panics stores nothing, so the next value
\* call executes the closure again).
C14_CompletesAtMostOnce ==
    /\ Cardinality(Completed) <= 1
    /\ NoPanic => Len(output) <= 1

\* C14 witness: value was called with both keys, three times or more, after
\* an execution that panicked, and exactly one execution returned.
C14_Witness ==
    /\ Len(history) >= 3
    /\ \A k \in Keys : CallsOf(k) # {}
    /\ ~NoPanic
    /\ Cardinality(Completed) = 1


\* C15: a thread that has found the slot empty executes the closure when it
\* reaches the call, whatever another thread has stored in between; so two
\* interleaved calls value(k) execute the closure twice for k (the witness).
C15_NoRecheck ==
    [][\A t \in Threads :
          (threads[t].pc = "call" /\ threads'[t].pc # "call") =>
              /\ Len(output') = Len(output) + 1
              /\ output'[Len(output')].arg = threads[t].arg]_vars

\* C15 witness: no execution panicked, and the closure has been executed more
\* than once for the same key.
C15_Witness ==
    /\ NoPanic
    /\ \E k \in Keys : Invocations(k) > 1

\* C16: every call of value that has started eventually finishes, by
\* returning a value or by passing on the closure's panic.
C16_Termination ==
    \A t \in Threads : (threads[t].pc # "idle") ~> (threads[t].pc = "idle")

\* C16 witness: a call that ran the closure has finished with a value, one
\* has finished with a panic, and no call is in progress.
C16_Witness ==
    /\ \A t \in Threads : threads[t].pc = "idle"
    /\ \E i \in DOMAIN history : history[i].ret.some
    /\ \E i \in DOMAIN history : history[i].ret = Panicked


\* C17: Guess::new(v) panics exactly when v < 1 or v > 100, every Guess that
\* exists holds a value between 1 and 100, and value() returns the v that
\* was given to the new that made the instance.
C17_GuessValid ==
    /\ \A i \in DOMAIN guessCalls :
          guessCalls[i].op = "new" =>
              (guessCalls[i].ret = "panic" <=> (guessCalls[i].arg < 1 \/ guessCalls[i].arg > 100))
    /\ \A id \in DOMAIN guesses : 1 <= guesses[id].value /\ guesses[id].value <= 100
    /\ \A i \in DOMAIN guessCalls :
          guessCalls[i].op = "value" =>
              \E j \in DOMAIN guessCalls :
                  /\ j < i
                  /\ guessCalls[j].op = "new"
                  /\ guessCalls[j].ret = "ok"
                  /\ guessCalls[j].id = guessCalls[i].arg
                  /\ guessCalls[j].arg = guessCalls[i].ret

\* C17 witness: a new has panicked, a new with the boundary value 100 has made
\* an instance, and value() has been called on it.
C17_Witness ==
    /\ \E i \in DOMAIN guessCalls : guessCalls[i].op = "new" /\ guessCalls[i].ret = "panic"
    /\ \E i \in DOMAIN guessCalls, j \in DOMAIN guessCalls :
          /\ guessCalls[i].op = "new" /\ guessCalls[i].arg = 100 /\ guessCalls[i].ret = "ok"
          /\ guessCalls[j].op = "value" /\ guessCalls[j].arg = guessCalls[i].id
          /\ guessCalls[j].ret = 100


\* C18: on an iterator over a vector of n elements, the i-th call of next()
\* (i = 1..n) returns Some of a reference to the element at index i - 1, in
\* order and each element once, and the (n+1)-th call returns None.
C18_IteratorProtocol ==
    \A k \in DOMAIN nexts :
        /\ k <= Len(v1) => nexts[k] = Some([idx |-> k - 1, v |-> v1[k]])
        /\ k = Len(v1) + 1 => nexts[k] = None

\* C18 witness: the run of tests::iterator_demonstration: over vec![1, 2, 3]
\* four calls of next() gave Some(&1), Some(&2), Some(&3), None.
C18_Witness ==
    /\ v1 = <<1, 2, 3>>
    /\ Len(nexts) = 4
    /\ nexts[1].some /\ nexts[1].v.v = 1
    /\ nexts[2].some /\ nexts[2].v.v = 2
    /\ nexts[3].some /\ nexts[3].v.v = 3
    /\ nexts[4] = None


\* C19: when generate_workout has finished, the expensive closure has run
\* exactly once if intensity < 25 (value having been called twice), not at
\* all if intensity >= 25 and random_number = 3, and exactly once if
\* intensity >= 25 and random_number # 3.
C19_WorkoutRuns ==
    workout.pc = "done" =>
        /\ workout.intensity < 25 => (Len(history) = 2 /\ Len(output) = 1)
        /\ (workout.intensity >= 25 /\ workout.random_number = 3) => Len(output) = 0
        /\ (workout.intensity >= 25 /\ workout.random_number # 3) => Len(output) = 1

\* C19 witness: generate_workout has finished for a low intensity: both
\* lines are printed with the same number, after two value calls and one run
\* of the closure.
C19_Witness ==
    /\ workout.pc = "done"
    /\ workout.intensity < 25
    /\ Len(workout.printed) = 2
    /\ workout.printed[1].n = workout.intensity
    /\ workout.printed[2].n = workout.intensity
    /\ Len(history) = 2
    /\ Len(output) = 1


\* C20: in every state of the file system, read_username_from_file_2 (with
\* `?`) returns what read_username_from_file (with `match`) returns: the same
\* Ok(contents) or the same Err.
C20_SameFunctionality ==
    (usernames.match.called /\ usernames.question.called) =>
        usernames.match.result = usernames.question.result


\* C21: for every outcome of opening hello.txt, closure_error_match ends the
\* way match_on_different_errors ends: with the same file handle, or with a
\* panic with the same message.
C21_SameEnd ==
    (opened.match.called /\ opened.closure.called) =>
        opened.match.result = opened.closure.result


\* The pass of the loop made by the step, when the step is one.
IsRound == Len(game'.rounds) = Len(game.rounds) + 1
ThisRound == game'.rounds[Len(game'.rounds)]
Verdicts == {"Too small!", "Too big!", "You win!"}

\* C22: the secret number never changes; a numeric guess below it prints
\* "Too small!" and one above it "Too big!", and the loop goes on; a guess
\* equal to it prints "You win!" and ends the loop, and the loop ends in no
\* other pass, so it ends at the first input that parses to the secret.
C22_GameExit ==
    [][/\ game'.secret_number = game.secret_number
       /\ IsRound =>
            LET r == ThisRound
                last == r.printed[Len(r.printed)]
            IN
            /\ (r.guess.ok /\ r.guess.val < game.secret_number) =>
                   (last = "Too small!" /\ game'.pc = "loop")
            /\ (r.guess.ok /\ r.guess.val > game.secret_number) =>
                   (last = "Too big!" /\ game'.pc = "loop")
            /\ (r.guess.ok /\ r.guess.val = game.secret_number) =>
                   (last = "You win!" /\ game'.pc = "done")
            /\ game'.pc = "done" => r.guess = Ok(game.secret_number)
            /\ \A i \in DOMAIN game.rounds :
                   game.rounds[i].guess # Ok(game.secret_number)]_vars

\* C22 witness: a guess that was too small, one that was too big, then the
\* secret number: the game has ended on the third pass.
C22_Witness ==
    /\ game.pc = "done"
    /\ Len(game.rounds) = 3
    /\ \A i \in 1..3 : game.rounds[i].guess.ok
    /\ game.rounds[1].printed[3] = "Too small!"
    /\ game.rounds[2].printed[3] = "Too big!"
    /\ game.rounds[3].printed[3] = "You win!"
    /\ game.rounds[3].guess = Ok(game.secret_number)

\* C23: a pass of the loop whose trimmed line does not parse as a u32 does
\* not crash, prints no guess and no verdict, and leaves main in the loop
\* for the next pass.
C23_InvalidInput ==
    [][(IsRound /\ ~ThisRound.guess.ok) =>
          /\ game'.pc = "loop"
          /\ \A k \in DOMAIN ThisRound.printed :
                 /\ ThisRound.printed[k] \notin Verdicts
                 /\ ThisRound.printed[k] # "You guessed: {}"]_vars

\* C23 witness: a line that is no number was read ("-5" or "abc"), and the
\* next pass read and compared a number.
C23_Witness ==
    /\ Len(game.rounds) >= 2
    /\ ~game.rounds[1].guess.ok
    /\ game.rounds[1].guess.err = "InvalidDigit"
    /\ game.rounds[2].guess.ok
    /\ Len(game.rounds[2].printed) = 3


\* C24: first_word returns the index of the first space byte of the string,
\* or the length of the string in bytes when it holds no space; the result r
\* satisfies 0 <= r <= len and no byte before index r is a space.
C24_FirstWord ==
    word.ret.some =>
        LET r == word.ret.v
            bytes == As_bytes(word.s)
            len == Len(bytes)
        IN
        /\ 0 <= r /\ r <= len
        /\ \A j \in 0..(r - 1) : bytes[j + 1] # Space
        /\ r < len => bytes[r + 1] = Space
        /\ (\A j \in 1..len : bytes[j] # Space) => r = len

\* C24 witness: first_word has returned 2 for a string that starts with a
\* two-byte letter and holds two spaces.
C24_Witness ==
    /\ word.s = <<"e-acute", " ", "a", " ">>
    /\ word.ret = Some(2)

====
